---------------------------- MODULE Spec2Model ----------------------------
(* A model of scripts/check_utf8_budget.py, the UTF-8 byte budget tool.    *)
(* Strings are sequences of Unicode code points, so that str.strip,        *)
(* str.rstrip("\n"), str.startswith, len and str.encode("utf-8") are       *)
(* computed as Python computes them.  A Path is the sequence of its parts. *)
EXTENDS Integers, Sequences, FiniteSets, TLC

VARIABLES
    args,             \* argparse's Namespace: paths, limit, extensions, ignore_prefix, quiet
    stdin_text,       \* every line standard input holds
    stdin_pos,        \* how many of them have been read
    extensions,       \* run's local: the parsed --extensions list
    ignore_prefixes,  \* run's local: the parsed --ignore-prefix list
    gen,              \* iter_paths' frame: the root it is at and the listing it walks
    entry,            \* run's loop variable: the target iter_paths yielded
    failures,         \* the list of Failure records (run's, or check_stream's own)
    checked,          \* run's local: the count of targets checked
    output,           \* the print calls made so far, in program order
    result,           \* run's return value, or the exception that left it
    yielded,          \* every target iter_paths has yielded, in order
    opened,           \* every Path run has opened
    call,             \* check_stream's parameters: text, limit, ignore_prefixes, source
    taken,            \* how many lines check_stream's loop has taken from text
    pc                \* the position of the program

vars == <<args, stdin_text, stdin_pos, extensions, ignore_prefixes, gen, entry,
          failures, checked, output, result, yielded, opened, call, taken, pc>>

(***************************************************************************)
(* Bounds of the model.                                                    *)
(***************************************************************************)
MaxLines == 3   \* the longest text drawn from SmallLines
MaxNL == 2      \* the most trailing newlines on a line handed to check_stream
MaxRoots == 2   \* the longest list of positional paths

(***************************************************************************)
(* str: the operations of Python's str the program uses.                   *)
(***************************************************************************)
NL == 10            \* "\n"
PreviewMax == 60
PreviewKeep == 57
Ellipsis == <<46, 46, 46>>   \* "..."

Rep(c, n) == [i \in 1..n |-> c]

\* str.isspace, the characters str.strip() removes
IsSpace(c) ==
    c \in ({9, 10, 11, 12, 13, 28, 29, 30, 31, 32, 133, 160, 5760,
            8232, 8233, 8239, 8287, 12288} \cup (8192..8202))

\* the bytes of one code point in UTF-8
CharBytes(c) ==
    IF c < 128 THEN 1 ELSE IF c < 2048 THEN 2 ELSE IF c < 65536 THEN 3 ELSE 4

RECURSIVE Utf8Sum(_, _, _)
\* the bytes of s[lo..hi], summed by halves
Utf8Sum(s, lo, hi) ==
    IF lo > hi THEN 0
    ELSE IF lo = hi THEN CharBytes(s[lo])
    ELSE LET mid == (lo + hi) \div 2
         IN Utf8Sum(s, lo, mid) + Utf8Sum(s, mid + 1, hi)

\* len(s.encode("utf-8"))
Utf8Len(s) == Utf8Sum(s, 1, Len(s))

RECURSIVE rstrip_nl(_)
\* s.rstrip("\n"): every trailing "\n" goes
rstrip_nl(s) ==
    IF s # <<>> /\ s[Len(s)] = NL THEN rstrip_nl(SubSeq(s, 1, Len(s) - 1)) ELSE s

RECURSIVE lstrip(_)
lstrip(s) == IF s # <<>> /\ IsSpace(s[1]) THEN lstrip(Tail(s)) ELSE s

RECURSIVE rstrip(_)
rstrip(s) ==
    IF s # <<>> /\ IsSpace(s[Len(s)]) THEN rstrip(SubSeq(s, 1, Len(s) - 1)) ELSE s

\* s.strip()
strip(s) == lstrip(rstrip(s))

\* s.startswith(prefix)
startswith(s, prefix) ==
    /\ Len(prefix) <= Len(s)
    /\ SubSeq(s, 1, Len(prefix)) = prefix

\* s.lower(), on ASCII letters
lower(s) == [i \in 1..Len(s) |-> IF s[i] \in 65..90 THEN s[i] + 32 ELSE s[i]]

RECURSIVE Dec(_)
\* str(n) of an int n >= 0
Dec(n) == IF n < 10 THEN <<48 + n>> ELSE Dec(n \div 10) \o <<48 + (n % 10)>>

RECURSIVE split(_, _)
\* s.split(sep) for a one-character sep
split(s, sep) ==
    IF \A i \in 1..Len(s) : s[i] # sep
    THEN <<s>>
    ELSE LET k == CHOOSE i \in 1..Len(s) :
                      s[i] = sep /\ \A j \in 1..(i - 1) : s[j] # sep
         IN <<SubSeq(s, 1, k - 1)>> \o split(SubSeq(s, k + 1, Len(s)), sep)

RECURSIVE join(_, _)
\* sep.join(parts)
join(parts, sep) ==
    IF parts = <<>> THEN <<>>
    ELSE IF Len(parts) = 1 THEN parts[1]
    ELSE parts[1] \o sep \o join(Tail(parts), sep)

(***************************************************************************)
(* Failure and check_stream.                                               *)
(***************************************************************************)
\* the two kinds of value a Failure's path holds: a Path or a plain str
PathVal(parts) == [kind |-> "Path", parts |-> parts]
StrVal(s) == [kind |-> "str", parts |-> <<s>>]

\* str(path): the parts joined by "/"; str(s) is s
str(p) == IF p.kind = "Path" THEN join(p.parts, <<47>>) ELSE p.parts[1]

Failure(path, line_no, byte_len, limit, preview) ==
    [path |-> path, line_no |-> line_no, byte_len |-> byte_len,
     limit |-> limit, preview |-> preview]

\* enumerate(text, start=1)
FirstIndexZero == 1 - 1
FirstIndex == 1

\* the two continue branches of the loop body
SkipsBlankOnly(stripped, prefixes) == stripped = <<>>
IsSkipped(stripped, prefixes) ==
    \/ stripped = <<>>
    \/ \E k \in 1..Len(prefixes) : startswith(stripped, prefixes[k])

\* byte_len > limit
ExceedsOrEquals(byte_len, limit) == byte_len >= limit
Exceeds(byte_len, limit) == byte_len > limit

rstrip_one_nl(s) ==
    IF s # <<>> /\ s[Len(s)] = NL THEN SubSeq(s, 1, Len(s) - 1) ELSE s
\* line = raw_line.rstrip("\n")
line_of(raw_line) == rstrip_nl(raw_line)

PreviewCutLate(stripped) ==
    IF Len(stripped) > PreviewMax
    THEN SubSeq(stripped, 1, PreviewMax) \o Ellipsis
    ELSE stripped
\* preview = stripped; if len(preview) > 60: preview = preview[:57] + "..."
make_preview(stripped) ==
    IF Len(stripped) > PreviewMax
    THEN SubSeq(stripped, 1, PreviewKeep) \o Ellipsis
    ELSE stripped

\* one iteration of check_stream's loop: the failures list after it
check_line(fs, i, raw_line, limit, prefixes, source) ==
    LET line == line_of(raw_line)
        stripped == strip(line)
        byte_len == Utf8Len(line)
    IN IF IsSkipped(stripped, prefixes) THEN fs
       ELSE IF Exceeds(byte_len, limit)
            THEN Append(fs, Failure(source, i, byte_len, limit,
                                    make_preview(stripped)))
            ELSE fs

RECURSIVE check_loop(_, _, _, _, _, _)
check_loop(fs, n, text, limit, prefixes, source) ==
    IF n = 0 THEN fs
    ELSE check_line(check_loop(fs, n - 1, text, limit, prefixes, source),
                    FirstIndex + (n - 1), text[n], limit, prefixes, source)

\* check_stream: the list it returns
check_stream(text, limit, prefixes, source) ==
    check_loop(<<>>, Len(text), text, limit, prefixes, source)

(***************************************************************************)
(* run's parsing of its comma-separated options.                           *)
(***************************************************************************)
RECURSIVE strip_nonempty(_)
\* [x.strip() for x in items if x.strip()]
strip_nonempty(items) ==
    IF items = <<>> THEN <<>>
    ELSE IF strip(items[1]) # <<>>
         THEN <<strip(items[1])>> \o strip_nonempty(Tail(items))
         ELSE strip_nonempty(Tail(items))

\* [x.strip() for x in arg.split(",") if x.strip()]
parse_list(arg) == strip_nonempty(split(arg, 44))

DEFAULT_IGNORE_PREFIXES == <<47, 47, 44, 35>>    \* ",".join(["//", "#"])
OnlyHash == <<35>>                               \* --ignore-prefix "#"
Empty == <<>>                                    \* an option given as ""

(***************************************************************************)
(* The inputs of check_stream called on its own: any iterable of str.      *)
(***************************************************************************)
Pads == {<<>>, <<32>>, <<9, 12288>>}             \* "", " ", "\t　"
TrailPads == {<<>>, <<32>>}
Bodies ==
    { <<120>>,                                   \* "x"
      <<120, 120, 120>>,                         \* "xxx"
      <<120, 120, 120, 120>>,                    \* "xxxx"
      <<233, 8364>>,                             \* two characters, five bytes
      <<128512>>,                                \* one character, four bytes
      <<35, 120, 120, 120, 120>>,                \* "#xxxx"
      <<47, 47, 120, 120, 120>>,                 \* "//xxx"
      <<47, 120, 120, 120, 120>>,                \* "/xxxx"
      <<120, 35, 120, 120, 120>>,                \* "x#xxx"
      <<120, 32, 120, 120>>,                     \* "x xx"
      Rep(120, 59), Rep(120, 60), Rep(120, 61),
      Rep(8364, 61),                             \* 61 characters, 183 bytes
      Rep(120, 56) \o <<32, 32, 120, 120, 120>>,
      <<115, 104, 111, 114, 116>>,               \* "short"
      <<35>> \o Rep(120, 250),
      Rep(121, 205) }
PaddedBodies ==
    { <<>>, <<120, 120>>, <<35, 120, 120, 120, 120>>, Rep(120, 60), Rep(120, 61) }

StreamLines ==
    { b \o <<NL>> : b \in Bodies }
    \cup { (l \o b) \o (t \o Rep(NL, k)) :
             l \in Pads, b \in PaddedBodies, t \in TrailPads, k \in 0..MaxNL }

SmallLines ==
    { <<120, NL>>,                               \* "x\n"
      <<120, 120, 120, 120, NL>>,                \* "xxxx\n"
      <<NL>>,                                    \* "\n"
      <<35, 120, 120, 120, 120, NL>>,            \* "#xxxx\n"
      <<32, 120, 120, 32, NL>>,                  \* " xx \n"
      <<120, 120, 120>> }                        \* "xxx"

SeqsUpTo(S, n) == UNION { [1..k -> S] : k \in 0..n }

\* the scenario: "short", "#" + "x"*250, "y"*205
ExampleText ==
    << <<115, 104, 111, 114, 116, NL>>,
       <<35>> \o Rep(120, 250) \o <<NL>>,
       Rep(121, 205) \o <<NL>> >>

StreamTexts ==
    SeqsUpTo(SmallLines, MaxLines) \cup { <<l>> : l \in StreamLines }
    \cup { ExampleText }

StreamLimits == {3, 200}
StreamPrefixes ==
    { parse_list(DEFAULT_IGNORE_PREFIXES), parse_list(OnlyHash), parse_list(Empty) }
StreamSources == { PathVal(<< <<116, 46, 109, 100>> >>), StrVal(<<115, 116, 100, 105, 110>>) }

NoArgs == [paths |-> <<>>, limit |-> 0, extensions |-> <<>>,
           ignore_prefix |-> <<>>, quiet |-> FALSE]
NoGen == [i |-> 1, in_dir |-> FALSE, listing |-> <<>>]
NoEntry == StrVal(<<>>)
NoCall == [text |-> <<>>, limit |-> 0, ignore_prefixes |-> <<>>, source |-> NoEntry]

StreamInit ==
    /\ call \in [text : StreamTexts, limit : StreamLimits,
                 ignore_prefixes : StreamPrefixes, source : StreamSources]
    /\ taken = 0
    /\ failures = <<>>
    /\ pc = "stream"
    /\ args = NoArgs
    /\ stdin_text = <<>>
    /\ stdin_pos = 0
    /\ extensions = <<>>
    /\ ignore_prefixes = <<>>
    /\ gen = NoGen
    /\ entry = NoEntry
    /\ checked = 0
    /\ output = <<>>
    /\ result = [kind |-> "none", code |-> 0, arg |-> <<>>]
    /\ yielded = <<>>
    /\ opened = {}

run_vars == <<args, stdin_text, stdin_pos, extensions, ignore_prefixes, gen, entry,
              checked, output, result, yielded, opened>>

\* one iteration of the for loop of check_stream
StreamStep ==
    /\ pc = "stream"
    /\ taken < Len(call.text)
    /\ failures' = check_line(failures, FirstIndex + taken, call.text[taken + 1],
                              call.limit, call.ignore_prefixes, call.source)
    /\ taken' = taken + 1
    /\ UNCHANGED <<call, pc>>
    /\ UNCHANGED run_vars

\* the iterable is exhausted: return failures
StreamReturn ==
    /\ pc = "stream"
    /\ taken = Len(call.text)
    /\ pc' = "returned"
    /\ UNCHANGED <<call, taken, failures>>
    /\ UNCHANGED run_vars

StreamNext == StreamStep \/ StreamReturn

StreamSpec == StreamInit /\ [][StreamNext]_vars

(***************************************************************************)
(* pathlib: Path, its suffix and order, and the file system the run sees.  *)
(***************************************************************************)
\* Path(raw).parts of a relative raw: "" and "." parts go
RECURSIVE drop_dots(_)
drop_dots(parts) ==
    IF parts = <<>> THEN <<>>
    ELSE IF parts[1] \in {<<>>, <<46>>} THEN drop_dots(Tail(parts))
    ELSE <<parts[1]>> \o drop_dots(Tail(parts))

Path(raw) == drop_dots(split(raw, 47))

\* path.suffix: the last part from its last dot on, unless that dot begins or ends it
suffix(path) ==
    IF path = <<>> THEN <<>>
    ELSE LET name == path[Len(path)]
             dots == {i \in 1..Len(name) : name[i] = 46}
         IN IF dots = {} THEN <<>>
            ELSE LET i == CHOOSE d \in dots : \A e \in dots : e <= d
                 IN IF 1 < i /\ i < Len(name) THEN SubSeq(name, i, Len(name))
                    ELSE <<>>

\* str < str, by code points
StrLess(a, b) ==
    \E k \in 1..Len(b) :
       /\ \A j \in 1..(k - 1) : j <= Len(a) /\ a[j] = b[j]
       /\ k > Len(a) \/ a[k] < b[k]

\* Path < Path: the parts compared as tuples of str
PathLess(p, q) ==
    \E k \in 1..Len(q) :
       /\ \A j \in 1..(k - 1) : j <= Len(p) /\ p[j] = q[j]
       /\ k > Len(p) \/ StrLess(p[k], q[k])

\* str(p) < str(q)
PathStrLess(p, q) == StrLess(join(p, <<47>>), join(q, <<47>>))

RECURSIVE sorted_by_str(_)
sorted_by_str(S) ==
    IF S = {} THEN <<>>
    ELSE LET m == CHOOSE x \in S : \A y \in S \ {x} : PathStrLess(x, y)
         IN <<m>> \o sorted_by_str(S \ {m})

RECURSIVE sorted_by_parts(_)
sorted_by_parts(S) ==
    IF S = {} THEN <<>>
    ELSE LET m == CHOOSE x \in S : \A y \in S \ {x} : PathLess(x, y)
         IN <<m>> \o sorted_by_parts(S \ {m})

\* sorted(paths)
sorted(S) == sorted_by_parts(S)

\* the names of the file system
N_docs == <<100, 111, 99, 115>>
N_a == <<97>>
N_a_md == <<97, 46, 109, 100>>
N_B_MD == <<66, 46, 77, 68>>
N_c_txt == <<99, 46, 116, 120, 116>>
N_d_md == <<100, 46, 109, 100>>
N_README == <<82, 69, 65, 68, 77, 69>>
N_x_md == <<120, 46, 109, 100>>
N_Y_TXT == <<89, 46, 84, 88, 84>>

\* the regular files and the lines a text-mode read of each yields
FileText ==
    (<<N_docs, N_B_MD>> :> << <<120>> \o <<NL>>, <<120, 120, 120, 120>> \o <<NL>> >>)
    @@ (<<N_docs, N_README>> :> << <<120, 120, 120, 120, 120, 120>> \o <<NL>> >>)
    @@ (<<N_docs, N_a, N_d_md>> :> << <<35, 120, 120, 120, 120>> \o <<NL>>, <<120, 120, 120, 120>> >>)
    @@ (<<N_docs, N_a_md>> :> << <<120, 120>> \o <<NL>> >>)
    @@ (<<N_docs, N_c_txt>> :> << <<120, 120, 120, 120, 120>> \o <<NL>> >>)
    @@ (<<N_x_md>> :> << <<32, 120, 120, 32>> \o <<NL>>, <<NL>>, <<233, 8364, NL>> >>)
    @@ (<<N_Y_TXT>> :> << <<120, 120, 120, 120>> \o <<NL>> >>)

is_file(path) == path \in DOMAIN FileText
is_dir(path) ==
    \E f \in DOMAIN FileText : Len(f) > Len(path) /\ SubSeq(f, 1, Len(path)) = path
exists(path) == is_file(path) \/ is_dir(path)

\* path.rglob("*"): every file and directory beneath path
rglob(path) ==
    UNION { { SubSeq(f, 1, n) : n \in (Len(path) + 1)..Len(f) } :
              f \in { g \in DOMAIN FileText :
                        Len(g) > Len(path) /\ SubSeq(g, 1, Len(path)) = path } }

(***************************************************************************)
(* iter_paths.                                                             *)
(***************************************************************************)
\* normalized_exts = {ext.lower() for ext in extensions}
normalized_exts(exts) == { lower(exts[k]) : k \in 1..Len(exts) }

accepts_case_sensitive(exts, path) ==
    normalized_exts(exts) = {} \/ suffix(path) \in normalized_exts(exts)
\* not normalized_exts or path.suffix.lower() in normalized_exts
accepts(exts, path) ==
    normalized_exts(exts) = {} \/ lower(suffix(path)) \in normalized_exts(exts)

Sentinel == StrVal(<<45>>)                       \* "-"
STDIN == StrVal(<<115, 116, 100, 105, 110>>)               \* source="stdin"

\* entry == "-": a Path never equals a str
is_sentinel(e) == e.kind = "str" /\ e = Sentinel

Raw == args.paths[gen.i]

Yield(e) ==
    /\ entry' = e
    /\ yielded' = Append(yielded, e)
    /\ pc' = "body"

\* raw == "-": yield raw
IterStdin ==
    /\ pc = "iter" /\ ~gen.in_dir /\ gen.i <= Len(args.paths)
    /\ Raw = <<45>>
    /\ Yield(Sentinel)
    /\ gen' = [gen EXCEPT !.i = @ + 1]
    /\ UNCHANGED <<args, stdin_text, stdin_pos, extensions, ignore_prefixes,
                   failures, checked, output, result, opened, call, taken>>

\* the walk goes on past a path that does not exist
IterMissingSkipped ==
    /\ pc = "iter" /\ ~gen.in_dir /\ gen.i <= Len(args.paths)
    /\ Raw # <<45>>
    /\ ~exists(Path(Raw))
    /\ gen' = [gen EXCEPT !.i = @ + 1]
    /\ UNCHANGED <<args, stdin_text, stdin_pos, extensions, ignore_prefixes, entry,
                   failures, checked, output, result, yielded, opened, call, taken, pc>>

\* not path.exists(): raise FileNotFoundError(raw), which leaves run
IterMissing ==
    /\ pc = "iter" /\ ~gen.in_dir /\ gen.i <= Len(args.paths)
    /\ Raw # <<45>>
    /\ ~exists(Path(Raw))
    /\ result' = [kind |-> "raise", code |-> 1, arg |-> Raw]
    /\ pc' = "aborted"
    /\ UNCHANGED <<args, stdin_text, stdin_pos, extensions, ignore_prefixes, gen, entry,
                   failures, checked, output, yielded, opened, call, taken>>

\* path.is_file(): yield it if its extension is accepted, and go to the next root
IterFile ==
    /\ pc = "iter" /\ ~gen.in_dir /\ gen.i <= Len(args.paths)
    /\ Raw # <<45>>
    /\ is_file(Path(Raw))
    /\ IF accepts(extensions, Path(Raw))
       THEN Yield(PathVal(Path(Raw)))
       ELSE UNCHANGED <<entry, yielded, pc>>
    /\ gen' = [gen EXCEPT !.i = @ + 1]
    /\ UNCHANGED <<args, stdin_text, stdin_pos, extensions, ignore_prefixes,
                   failures, checked, output, result, opened, call, taken>>

\* otherwise: sorted(path.rglob("*")) is computed and walked
IterDir ==
    /\ pc = "iter" /\ ~gen.in_dir /\ gen.i <= Len(args.paths)
    /\ Raw # <<45>>
    /\ exists(Path(Raw)) /\ ~is_file(Path(Raw))
    /\ gen' = [gen EXCEPT !.in_dir = TRUE, !.listing = sorted(rglob(Path(Raw)))]
    /\ UNCHANGED <<args, stdin_text, stdin_pos, extensions, ignore_prefixes, entry,
                   failures, checked, output, result, yielded, opened, call, taken, pc>>

\* the next file_path of the listing: yield it if it is an accepted file
IterDirNext ==
    /\ pc = "iter" /\ gen.in_dir /\ gen.listing # <<>>
    /\ IF is_file(Head(gen.listing)) /\ accepts(extensions, Head(gen.listing))
       THEN Yield(PathVal(Head(gen.listing)))
       ELSE UNCHANGED <<entry, yielded, pc>>
    /\ gen' = [gen EXCEPT !.listing = Tail(@)]
    /\ UNCHANGED <<args, stdin_text, stdin_pos, extensions, ignore_prefixes,
                   failures, checked, output, result, opened, call, taken>>

\* the listing is exhausted: the next root
IterDirEnd ==
    /\ pc = "iter" /\ gen.in_dir /\ gen.listing = <<>>
    /\ gen' = [gen EXCEPT !.in_dir = FALSE, !.i = @ + 1]
    /\ UNCHANGED <<args, stdin_text, stdin_pos, extensions, ignore_prefixes, entry,
                   failures, checked, output, result, yielded, opened, call, taken, pc>>

\* inputs is exhausted: the generator stops and run's for loop ends
IterStop ==
    /\ pc = "iter" /\ ~gen.in_dir /\ gen.i > Len(args.paths)
    /\ pc' = "summary"
    /\ UNCHANGED <<args, stdin_text, stdin_pos, extensions, ignore_prefixes, gen, entry,
                   failures, checked, output, result, yielded, opened, call, taken>>

(***************************************************************************)
(* Failure.format and run.                                                 *)
(***************************************************************************)
format_with_line(f) ==
    str(f.path) \o <<58>> \o Dec(f.line_no)
    \o <<32, 101, 120, 99, 101, 101, 100, 115, 32, 108, 105, 109, 105, 116, 32, 40>> \o Dec(f.byte_len)
    \o <<32, 62, 32>> \o Dec(f.limit) \o <<32, 98, 121, 116, 101, 115, 41, 58, 32>> \o f.preview
\* Failure.format
format(f) ==
    (IF f.path.kind = "Path" THEN str(f.path) \o <<58>> \o Dec(f.line_no)
     ELSE <<115, 116, 100, 105, 110>>)
    \o <<32, 101, 120, 99, 101, 101, 100, 115, 32, 108, 105, 109, 105, 116, 32, 40>> \o Dec(f.byte_len)
    \o <<32, 62, 32>> \o Dec(f.limit) \o <<32, 98, 121, 116, 101, 115, 41, 58, 32>> \o f.preview

\* the summary line of run
summary_line(n_checked, n_failures) ==
    <<67, 104, 101, 99, 107, 101, 100, 32>> \o Dec(n_checked) \o <<32>>
    \o (IF n_checked = 1 THEN <<102, 105, 108, 101>> ELSE <<102, 105, 108, 101, 115>>)
    \o <<32, 119, 105, 116, 104, 32>> \o Dec(n_failures) \o <<32, 118, 105, 111, 108, 97, 116, 105, 111, 110, 40, 115, 41, 46>>

print(out, chan, text) == Append(out, [chan |-> chan, text |-> text])

\* failures.extend(more)
extend(fs, more) == fs \o more

DEFAULT_EXTENSIONS == <<46, 116, 120, 116, 44, 46, 111, 117, 116, 44, 46, 121, 97, 109, 108, 44, 46, 121, 109, 108, 44, 46, 109, 100>>
DEFAULT_PATHS == << <<116, 101, 115, 116, 115, 47, 116, 101, 115, 116, 45, 100, 97, 116, 97, 45, 105, 110, 116>>, <<100, 111, 99, 115, 47, 113, 97>> >>

\* args = parser.parse_args(argv), then the two option lists are parsed
ParseArgs ==
    /\ pc = "parse"
    /\ extensions' = parse_list(args.extensions)
    /\ ignore_prefixes' = parse_list(args.ignore_prefix)
    /\ pc' = "iter"
    /\ UNCHANGED <<args, stdin_text, stdin_pos, gen, entry, failures, checked, output,
                   result, yielded, opened, call, taken>>

\* entry == "-": check what standard input still holds
CheckStdin ==
    /\ pc = "body"
    /\ is_sentinel(entry)
    /\ failures' = extend(failures,
                          check_stream(SubSeq(stdin_text, stdin_pos + 1, Len(stdin_text)),
                                       args.limit, ignore_prefixes, STDIN))
    /\ stdin_pos' = Len(stdin_text)
    /\ checked' = checked + 1
    /\ pc' = "iter"
    /\ UNCHANGED <<args, stdin_text, extensions, ignore_prefixes, gen, entry, output,
                   result, yielded, opened, call, taken>>

\* otherwise: open the file and check its lines
CheckFile ==
    /\ pc = "body"
    /\ ~is_sentinel(entry)
    /\ opened' = opened \cup {entry.parts}
    /\ failures' = extend(failures,
                          check_stream(FileText[entry.parts], args.limit,
                                       ignore_prefixes, PathVal(entry.parts)))
    /\ checked' = checked + 1
    /\ pc' = "iter"
    /\ UNCHANGED <<args, stdin_text, stdin_pos, extensions, ignore_prefixes, gen, entry,
                   output, result, yielded, call, taken>>

\* if not args.quiet: print the summary
PrintSummary ==
    /\ pc = "summary"
    /\ output' = IF ~args.quiet
                 THEN print(output, "stdout", summary_line(checked, Len(failures)))
                 ELSE output
    /\ pc' = "report"
    /\ UNCHANGED <<args, stdin_text, stdin_pos, extensions, ignore_prefixes, gen, entry,
                   failures, checked, result, yielded, opened, call, taken>>

RECURSIVE print_all(_, _)
\* for failure in failures: print(failure.format(), file=sys.stderr)
print_all(out, fs) ==
    IF fs = <<>> THEN out
    ELSE print_all(print(out, "stderr", format(fs[1])), Tail(fs))

\* the violations are printed only when not quiet
PrintFailuresUnlessQuiet ==
    /\ pc = "report"
    /\ failures # <<>>
    /\ output' = IF args.quiet THEN output ELSE print_all(output, failures)
    /\ result' = [kind |-> "return", code |-> 1, arg |-> <<>>]
    /\ pc' = "done"
    /\ UNCHANGED <<args, stdin_text, stdin_pos, extensions, ignore_prefixes, gen, entry,
                   failures, checked, yielded, opened, call, taken>>

\* if failures: print each and return 1
PrintFailures ==
    /\ pc = "report"
    /\ failures # <<>>
    /\ output' = print_all(output, failures)
    /\ result' = [kind |-> "return", code |-> 1, arg |-> <<>>]
    /\ pc' = "done"
    /\ UNCHANGED <<args, stdin_text, stdin_pos, extensions, ignore_prefixes, gen, entry,
                   failures, checked, yielded, opened, call, taken>>

\* return 0
ReturnZero ==
    /\ pc = "report"
    /\ failures = <<>>
    /\ result' = [kind |-> "return", code |-> 0, arg |-> <<>>]
    /\ pc' = "done"
    /\ UNCHANGED <<args, stdin_text, stdin_pos, extensions, ignore_prefixes, gen, entry,
                   failures, checked, output, yielded, opened, call, taken>>

(***************************************************************************)
(* The command lines and inputs of the runs.                               *)
(***************************************************************************)
RootArgs ==
    { <<45>>,                                    \* "-"
      <<100, 111, 99, 115>>, <<100, 111, 99, 115, 47, 97>>, <<100, 111, 99, 115, 47, 82, 69, 65, 68, 77, 69>>,
      <<120, 46, 109, 100>>, <<89, 46, 84, 88, 84>>,
      <<110, 111, 112, 101>> }                         \* no such path
ExtArgs == { DEFAULT_EXTENSIONS, <<46, 77, 68>>, Empty }
PrefixArgs == { DEFAULT_IGNORE_PREFIXES, Empty }
RunLimits == {3, 5}
StdinTexts ==
    { <<>>,
      << <<120, 120, 120, 120>> \o <<NL>>, <<35, 120, 120, 120, 120, 120>> \o <<NL>>, <<120, 120, 120, 120, 120, 120>> >> }

\* nargs="*" with a default: no positional path gives the default list
paths_of(given) == IF given = <<>> THEN DEFAULT_PATHS ELSE given

Init ==
    /\ \E given \in SeqsUpTo(RootArgs, MaxRoots), limit \in RunLimits,
          exts \in ExtArgs, prefixes \in PrefixArgs, quiet \in BOOLEAN :
          args = [paths |-> paths_of(given), limit |-> limit, extensions |-> exts,
                  ignore_prefix |-> prefixes, quiet |-> quiet]
    /\ stdin_text \in StdinTexts
    /\ stdin_pos = 0
    /\ extensions = <<>>
    /\ ignore_prefixes = <<>>
    /\ gen = NoGen
    /\ entry = NoEntry
    /\ failures = <<>>
    /\ checked = 0
    /\ output = <<>>
    /\ result = [kind |-> "none", code |-> 0, arg |-> <<>>]
    /\ yielded = <<>>
    /\ opened = {}
    /\ call = NoCall
    /\ taken = 0
    /\ pc = "parse"

Next ==
    \/ ParseArgs
    \/ IterStdin \/ IterMissing \/ IterFile \/ IterDir
    \/ IterDirNext \/ IterDirEnd \/ IterStop
    \/ CheckStdin \/ CheckFile
    \/ PrintSummary \/ PrintFailures \/ ReturnZero

Spec == Init /\ [][Next]_vars

(***************************************************************************)
(* What the claims speak of, stated without the program's own operators:   *)
(* a line's content, its trimmed copy, its encoded length.                 *)
(***************************************************************************)
AllSpace(s) == \A i \in 1..Len(s) : IsSpace(s[i])

\* s between its first and its last character that is not whitespace
Trimmed(s) ==
    IF AllSpace(s) THEN <<>>
    ELSE LET a == CHOOSE i \in 1..Len(s) :
                      ~IsSpace(s[i]) /\ \A j \in 1..(i - 1) : IsSpace(s[j])
             b == CHOOSE i \in 1..Len(s) :
                      ~IsSpace(s[i]) /\ \A j \in (i + 1)..Len(s) : IsSpace(s[j])
         IN SubSeq(s, a, b)

HasPrefix(s, p) == Len(p) <= Len(s) /\ \A j \in 1..Len(p) : s[j] = p[j]

\* blank, or ignore-prefixed
Exempt(raw, prefixes) ==
    \/ AllSpace(raw)
    \/ \E k \in 1..Len(prefixes) : HasPrefix(Trimmed(raw), prefixes[k])

\* raw without any of its trailing newlines
WithoutNewlines(raw) ==
    LET k == CHOOSE n \in 0..Len(raw) :
                 /\ n = 0 \/ raw[n] # NL
                 /\ \A j \in (n + 1)..Len(raw) : raw[j] = NL
    IN SubSeq(raw, 1, k)

\* raw without one trailing newline
WithoutOneNewline(raw) ==
    IF raw # <<>> /\ raw[Len(raw)] = NL THEN SubSeq(raw, 1, Len(raw) - 1) ELSE raw

\* the length of s in UTF-8: one byte a character, and one more for each of
\* the thresholds 0x80, 0x800, 0x10000 its code point reaches
EncodedLength(s) ==
    Len(s) + Cardinality({i \in 1..Len(s) : s[i] >= 128})
           + Cardinality({i \in 1..Len(s) : s[i] >= 2048})
           + Cardinality({i \in 1..Len(s) : s[i] >= 65536})

LineLength(raw) == EncodedLength(WithoutNewlines(raw))

\* the lines of text[1..n] that are over the limit and not exempt
Offending(text, n, limit, prefixes) ==
    { i \in 1..n : LineLength(text[i]) > limit /\ ~Exempt(text[i], prefixes) }

\* the failures recorded for line i
Hits(i) == { k \in 1..Len(failures) : failures[k].line_no = i }

\* the preview the claims describe for a line
PreviewOf(raw) ==
    LET t == Trimmed(raw)
    IN IF Len(t) > 60 THEN SubSeq(t, 1, 57) \o <<46, 46, 46>> ELSE t

\* a file's extension: its name from the last dot on, a dot that neither
\* begins nor ends the name
Extension(path) ==
    LET name == path[Len(path)]
    IN IF \E d \in 2..(Len(name) - 1) :
             name[d] = 46 /\ \A e \in (d + 1)..Len(name) : name[e] # 46
       THEN LET d == CHOOSE d \in 2..(Len(name) - 1) :
                         name[d] = 46 /\ \A e \in (d + 1)..Len(name) : name[e] # 46
            IN SubSeq(name, d, Len(name))
       ELSE <<>>

Upper(c) == IF c \in 97..122 THEN c - 32 ELSE c
SameIgnoringCase(a, b) ==
    Len(a) = Len(b) /\ \A i \in 1..Len(a) : Upper(a[i]) = Upper(b[i])

\* the accepted set is empty, or holds the file's extension up to case
Accepted(path) ==
    \/ extensions = <<>>
    \/ \E k \in 1..Len(extensions) : SameIgnoringCase(Extension(path), extensions[k])

\* the regular files a root names: itself, or those beneath it
Candidates(raw) ==
    IF raw = <<45>> THEN {}
    ELSE { f \in DOMAIN FileText :
             /\ Len(f) >= Len(Path(raw))
             /\ SubSeq(f, 1, Len(Path(raw))) = Path(raw) }

IsMissing(raw) == raw # <<45>> /\ Candidates(raw) = {}
HasMissing == \E i \in 1..Len(args.paths) : IsMissing(args.paths[i])
FirstMissingAt ==
    CHOOSE i \in 1..Len(args.paths) :
       /\ IsMissing(args.paths[i])
       /\ \A j \in 1..(i - 1) : ~IsMissing(args.paths[j])

\* the targets of one root, in path order
TargetsOfRoot(raw) ==
    IF raw = <<45>> THEN <<Sentinel>>
    ELSE LET S == { f \in Candidates(raw) : Accepted(f) }
         IN [k \in 1..Cardinality(S) |->
               PathVal(CHOOSE f \in S :
                          Cardinality({g \in S : PathLess(g, f)}) = k - 1)]

RECURSIVE TargetsOfRoots(_)
\* the targets of the first n roots, in root order
TargetsOfRoots(n) ==
    IF n = 0 THEN <<>>
    ELSE TargetsOfRoots(n - 1) \o TargetsOfRoot(args.paths[n])

\* the violations of a text, in line order
ViolationsOf(text, source) ==
    LET off == Offending(text, Len(text), args.limit, ignore_prefixes)
    IN [k \in 1..Cardinality(off) |->
          LET i == CHOOSE i \in off : Cardinality({j \in off : j < i}) = k - 1
          IN [path |-> source, line_no |-> i, byte_len |-> LineLength(text[i]),
              limit |-> args.limit, preview |-> PreviewOf(text[i])]]

\* the lines the k-th target yields; again: standard input yields its lines
\* to every "-", not only to the first
TextOfTarget(targets, k, again) ==
    IF targets[k].kind = "Path" THEN FileText[targets[k].parts]
    ELSE IF again \/ \A j \in 1..(k - 1) : targets[j].kind = "Path"
         THEN stdin_text
         ELSE <<>>

RECURSIVE ViolationsOfTargets(_, _, _)
\* the violations of the first n targets, target after target
ViolationsOfTargets(targets, n, again) ==
    IF n = 0 THEN <<>>
    ELSE ViolationsOfTargets(targets, n - 1, again)
         \o ViolationsOf(TextOfTarget(targets, n, again),
                         IF targets[n].kind = "Path" THEN targets[n] ELSE STDIN)

Channel(chan) == SelectSeq(output, LAMBDA o : o.chan = chan)
Finished == pc \in {"summary", "report", "done"}

(***************************************************************************)
(* C3: a run that ends without an I/O error returns 0 exactly when no      *)
(* violation was collected over all inputs and 1 otherwise; --quiet only   *)
(* decides whether the summary line is printed: the status and the         *)
(* violation lines on the error channel are those the inputs determine.    *)
(***************************************************************************)
C3_ExitStatusAndQuiet ==
    pc = "done" =>
       LET expected == ViolationsOfTargets(TargetsOfRoots(Len(args.paths)),
                                           Len(TargetsOfRoots(Len(args.paths))), FALSE)
       IN /\ result.kind = "return"
          /\ result.code = (IF Len(failures) = 0 THEN 0 ELSE 1)
          /\ result.code = (IF expected = <<>> THEN 0 ELSE 1)
          /\ Len(Channel("stderr")) = Len(expected)
          /\ \A k \in 1..Len(expected) : Channel("stderr")[k].text = format(expected[k])
          /\ Len(Channel("stdout")) = (IF args.quiet THEN 0 ELSE 1)

C3_Witness ==
    /\ pc = "done"
    /\ args.quiet
    /\ result.code = 1
    /\ Len(output) >= 2

(***************************************************************************)
(* C4 as stated: a violation found on standard input has the stream        *)
(* sentinel "-" as its source and as its printed location.                 *)
(***************************************************************************)
C4_LocationIsSentinel ==
    pc = "done" =>
       \A k \in 1..Len(failures) :
          failures[k].path.kind = "str" =>
             /\ failures[k].path = Sentinel
             /\ HasPrefix(Channel("stderr")[k].text, <<45, 32, 101, 120, 99, 101, 101, 100, 115, 32, 108, 105, 109, 105, 116, 32, 40>>)

(***************************************************************************)
(* C4 amended: a violation found on standard input has the literal string  *)
(* "stdin" as its source and as its printed location: not the token "-",   *)
(* not a file path and not a path:line_number pair.                        *)
(***************************************************************************)
C4_LocationIsStdin ==
    pc = "done" =>
       /\ \A k \in 1..Len(failures) :
             failures[k].path.kind = "str" =>
                /\ failures[k].path = StrVal(<<115, 116, 100, 105, 110>>)
                /\ HasPrefix(Channel("stderr")[k].text, <<115, 116, 100, 105, 110, 32, 101, 120, 99, 101, 101, 100, 115, 32, 108, 105, 109, 105, 116, 32, 40>>)
       /\ Cardinality({k \in 1..Len(failures) : failures[k].path.kind = "str"}) =
             (IF \E i \in 1..Len(args.paths) : args.paths[i] = <<45>>
              THEN Cardinality(Offending(stdin_text, Len(stdin_text), args.limit,
                                         ignore_prefixes))
              ELSE 0)

C4_Witness ==
    /\ pc = "done"
    /\ args.paths[1] = <<45>>
    /\ failures # <<>>
    /\ failures[1].path.kind = "str"
    /\ failures[1].line_no = 3

(***************************************************************************)
(* C5: when a root other than "-" does not exist, the run aborts with a    *)
(* path-not-found error naming that root and prints nothing before it,     *)
(* wherever the root stands in the list and whatever violations the roots  *)
(* before it hold.                                                         *)
(***************************************************************************)
C5_MissingRootAborts ==
    HasMissing =>
       /\ output = <<>>
       /\ pc \in {"parse", "iter", "body", "aborted"}
       /\ gen.i <= FirstMissingAt
       /\ pc = "aborted" =>
             /\ gen.i = FirstMissingAt
             /\ result = [kind |-> "raise", code |-> 1,
                          arg |-> args.paths[FirstMissingAt]]

C5_Witness ==
    /\ pc = "aborted"
    /\ Len(args.paths) = 2
    /\ IsMissing(args.paths[2])
    /\ checked >= 1
    /\ failures # <<>>

(***************************************************************************)
(* C6: iter_paths yields a regular file, a root or one beneath a root      *)
(* directory, exactly when the accepted set is empty or holds the file's   *)
(* extension, dot included, up to case; a file that fails the filter is    *)
(* never opened, counted or reported, and an empty --extensions value      *)
(* accepts every file.                                                     *)
(***************************************************************************)
C6_ExtensionFilter ==
       /\ \A k \in 1..Len(yielded) :
             yielded[k].kind = "Path" =>
                /\ yielded[k].parts \in DOMAIN FileText
                /\ Accepted(yielded[k].parts)
       /\ Finished =>
             \A i \in 1..Len(args.paths) : \A f \in Candidates(args.paths[i]) :
                Accepted(f) => \E k \in 1..Len(yielded) : yielded[k] = PathVal(f)
       /\ \A f \in opened : Accepted(f)
       /\ \A k \in 1..Len(failures) :
             failures[k].path.kind = "Path" => Accepted(failures[k].path.parts)
       /\ checked <= Len(yielded)
       /\ (Finished /\ args.extensions = <<>>) =>
             \A i \in 1..Len(args.paths) :
                Candidates(args.paths[i]) \subseteq opened

C6_Witness ==
    /\ pc = "done"
    /\ args.extensions = <<46, 77, 68>>
    /\ args.paths = << <<100, 111, 99, 115>> >>
    /\ <<N_docs, N_a_md>> \in opened
    /\ <<N_docs, N_B_MD>> \in opened
    /\ <<N_docs, N_c_txt>> \notin opened
    /\ checked = 3

(***************************************************************************)
(* C9 as stated: the final violation list is the concatenation, in         *)
(* enumeration order of the targets, of each target's violations in line   *)
(* order, and a root listed twice contributes its violations twice.        *)
(***************************************************************************)
C9_EveryRootContributesAgain ==
    Finished =>
       /\ yielded = TargetsOfRoots(Len(args.paths))
       /\ failures = ViolationsOfTargets(yielded, Len(yielded), TRUE)

(***************************************************************************)
(* C9 amended: the final violation list is the concatenation, in           *)
(* enumeration order of the targets (root order, sorted path order inside  *)
(* a root directory), of each target's violations in line order; a         *)
(* violation never stops the checking of later targets, nothing is         *)
(* deduplicated or re-sorted, and a file or directory root listed twice    *)
(* contributes its violations twice, while standard input is consumed by   *)
(* the first "-" and a later "-" contributes nothing; the violation lines  *)
(* are printed to the error channel in that order after the summary line.  *)
(***************************************************************************)
C9_ConcatenationInOrder ==
    /\ pc = "iter" => failures = ViolationsOfTargets(yielded, Len(yielded), FALSE)
    /\ Finished =>
          /\ yielded = TargetsOfRoots(Len(args.paths))
          /\ checked = Len(yielded)
          /\ failures = ViolationsOfTargets(yielded, Len(yielded), FALSE)
    /\ pc = "done" =>
          /\ Len(Channel("stderr")) = Len(failures)
          /\ \A k \in 1..Len(failures) : Channel("stderr")[k].text = format(failures[k])
          /\ \A k \in 1..Len(output) : output[k].chan = "stdout" => k = 1

C9_Witness ==
    /\ pc = "done"
    /\ ~args.quiet
    /\ args.paths = << <<100, 111, 99, 115>>, <<100, 111, 99, 115>> >>
    /\ Len(failures) >= 4
    /\ \E j, k \in 1..Len(failures) :
          j < k /\ failures[j] = failures[k]

(***************************************************************************)
(* C1: check_stream reports no violation for a line whose UTF-8 length is  *)
(* at most the limit, and exactly one for each line over the limit that is *)
(* neither blank nor ignore-prefixed; that violation's byte_len is the     *)
(* line's exact encoded length and its limit the configured limit.         *)
(***************************************************************************)
C1_OneViolationPerLongLine ==
    /\ \A i \in 1..taken :
          LET raw == call.text[i]
              n == LineLength(raw)
          IN /\ n <= call.limit => Hits(i) = {}
             /\ (n > call.limit /\ ~Exempt(raw, call.ignore_prefixes)) =>
                   /\ Cardinality(Hits(i)) = 1
                   /\ \A k \in Hits(i) : /\ failures[k].byte_len = n
                                         /\ failures[k].limit = call.limit
    /\ Len(failures) =
             Cardinality(Offending(call.text, taken, call.limit, call.ignore_prefixes))

C1_Witness ==
    /\ pc = "returned"
    /\ Len(failures) = 1
    /\ \E i, j \in 1..taken :
          /\ LineLength(call.text[i]) = call.limit
          /\ ~Exempt(call.text[i], call.ignore_prefixes)
          /\ LineLength(call.text[j]) > call.limit
          /\ failures[1].line_no = j

(***************************************************************************)
(* C2: taking a line that is blank or whitespace-only after trimming, or   *)
(* whose trimmed content starts with an ignore prefix, never adds a        *)
(* violation, whatever its length and the limit.                           *)
(***************************************************************************)
C2_ExemptLineAddsNothing ==
    [][ ( /\ pc = "stream"
          /\ taken < Len(call.text)
          /\ Exempt(call.text[taken + 1], call.ignore_prefixes) )
        => failures' = failures ]_vars

C2_Witness ==
    /\ pc = "stream"
    /\ taken = 1
    /\ failures = <<>>
    /\ call.ignore_prefixes # <<>>
    /\ ~AllSpace(call.text[1])
    /\ Exempt(call.text[1], call.ignore_prefixes)
    /\ LineLength(call.text[1]) > 200
    /\ call.limit = 200

(***************************************************************************)
(* C7: a violation's preview is the whitespace-trimmed line: its first 57  *)
(* characters and "..." (60 characters) when the trimmed line has more     *)
(* than 60 characters, the trimmed line unchanged otherwise.               *)
(***************************************************************************)
C7_PreviewTruncation ==
       \A k \in 1..Len(failures) :
          LET f == failures[k]
              t == Trimmed(call.text[f.line_no])
          IN /\ Len(t) > 60 =>
                   /\ f.preview = SubSeq(t, 1, 57) \o <<46, 46, 46>>
                   /\ Len(f.preview) = 60
             /\ Len(t) <= 60 => f.preview = t
             /\ Len(f.preview) <= 60

C7_Witness ==
    /\ pc = "returned"
    /\ \E k \in 1..Len(failures) :
          /\ Len(Trimmed(call.text[failures[k].line_no])) = 61
          /\ Len(failures[k].preview) = 60
          /\ failures[k].preview[60] = 46

C10_LineNumbers ==
       /\ \A k \in 1..Len(failures) :
             LET n == failures[k].line_no
             IN /\ n \in 1..taken
                /\ n \in Offending(call.text, taken, call.limit, call.ignore_prefixes)
                /\ Cardinality(Offending(call.text, n, call.limit,
                                         call.ignore_prefixes)) = k
       /\ ( /\ pc = "returned"
            /\ call.text = ExampleText
            /\ call.limit = 200
            /\ call.ignore_prefixes = << <<35>> >> )
          => /\ Len(failures) = 1
             /\ failures[1].line_no = 3
             /\ failures[1].byte_len = 205

C10_Witness ==
    /\ pc = "returned"
    /\ call.text = ExampleText
    /\ call.limit = 200
    /\ call.ignore_prefixes = << <<35>> >>
    /\ Len(failures) = 1
    /\ failures[1].line_no = 3

=============================================================================
